---- MODULE Spec2Model ----
(***************************************************************************)
(* Memory Scramble board (lab3/src/board.ts): the grid of cells, the       *)
(* per-player turn tracker, the per-cell FIFO queues of suspended first    *)
(* card flips and the microtask queue on which resolved promises resume.   *)
(*                                                                         *)
(* The runtime is single threaded: the synchronous part of a call is one   *)
(* atomic action.  A promise resolved by relinquishControl resumes its     *)
(* waiter in a later microtask, and the tail of flip (checkRep and         *)
(* triggerBoardChange after `await flipFirst/flipSecond`) also runs in a   *)
(* later microtask; calls issued by the client may come in between.        *)
(***************************************************************************)
EXTENDS Integers, Sequences, FiniteSets, TLC

\* ------------------------------------------------------------------ bounds
\* SpecOpen: at most this many flips in flight (suspended in a waiter queue,
\* woken but not yet resumed, or past their await but not yet settled)
MaxInFlight == 2
\* SpecWatch: at most this many calls of watch pending
MaxListeners == 2
\* SpecMap: at most this many calls of map that have not returned
MaxMaps == 2
\* SpecSim: simulation.ts with this many turns per player
tries == 2
\* SpecParse: board files of at most MaxDim rows and columns, with at most
\* MaxBodyLines lines after the first
MaxDim == 2
MaxBodyLines == 3

\* ----------------------------------------------------------- the fixture
Players == {"alice", "bob", "charlie"}
\* SpecOpen: the clients that call flip again without awaiting the last call
Reentrant == {"alice", "bob"}

\* the parsed board file: one row of cards, two of them a pair
Cards == << <<"A", "A", "B">> >>

Rows == Len(Cards)
Cols == Len(Cards[1])

\* null: a removed card, no controller
Null == "null"
\* undefined firstCard / secondCard
NoCard == << >>

Positions == {<<r, c>> : r \in 0..(Rows - 1), c \in 0..(Cols - 1)}
\* the cells the players of SpecLive play on: the two cards of one pair
LivePositions == {<<0, 0>>, <<0, 1>>}
\* positions outside the grid that a client may name
OutOfBounds == {<<-1, 0>>}
FlipTargets == Positions \cup OutOfBounds

\* the i-th cell of `for (const row of this.grid) for (const cell of row)`
CellOfLine(i) == <<(i - 1) \div Cols, (i - 1) % Cols>>

\* this.grid[row]?.[col] is defined
InBounds(pos) ==
    /\ pos # NoCard
    /\ pos[1] >= 0 /\ pos[1] < Rows
    /\ pos[2] >= 0 /\ pos[2] < Cols

\* the cards a transform can return
Values == {"A", "B", "C"}
\* the promise f(card) rejects
Rejects == "rejects"
\* the transforms passed to map: a renaming of the cards, a transform that
\* gives every card the same picture, and one that fails on card B
Transforms == {"rename", "merge", "picky"}

f(name, card) ==
    CASE name = "rename" -> (CASE card = "A" -> "C" [] card = "B" -> "A" [] OTHER -> "B")
      [] name = "merge"  -> "A"
      [] OTHER           -> IF card = "B" THEN Rejects ELSE card

\* error messages thrown by flip
ErrNoCard == "No card at position"
ErrGone == "no longer available"
ErrControlled == "already controlled by a player"
ErrInvalid == "Invalid card positions stored for player"
ErrAssert == "AssertionError"
\* parseFromFile wraps whatever went wrong
ErrParse == "Could not read or parse board file"
\* map rethrows the error of the transform
ErrTransform == "error thrown by f"

VARIABLES
    value,          \* grid[r][c].value: the card, or Null when removed
    faceUp,         \* grid[r][c].faceUp
    controlledBy,   \* grid[r][c].controlledBy: a player id, or Null
    firstCard,      \* players.get(id).firstCard, NoCard when undefined
    secondCard,     \* players.get(id).secondCard, NoCard when undefined
    hasMatched,     \* players.get(id).hasMatched
    waiters,        \* waiters.get("r,c"): FIFO of the players suspended there
    tasks,          \* microtask queue: continuations of resolved promises
    listeners,      \* boardChangeCallbacks: the players whose watch is pending
    maps,           \* the calls of map that have not returned yet
    last,           \* the step just taken: the call or continuation, the
                    \* rule of the game it applied, how it ended, whether
                    \* it called triggerBoardChange, and what look returned
    jj              \* simulation.ts: the loop counter of each player(), the
                    \* turns it has begun

vars == <<value, faceUp, controlledBy, firstCard, secondCard, hasMatched,
          waiters, tasks, listeners, maps, last, jj>>

\* the board as one record, so that helpers compose as the methods do
Board ==
    [value |-> value, faceUp |-> faceUp, controlledBy |-> controlledBy,
     firstCard |-> firstCard, secondCard |-> secondCard,
     hasMatched |-> hasMatched, waiters |-> waiters, tasks |-> tasks]

ResumeTask(p, pos) == [k |-> "resume", p |-> p, pos |-> pos]
SettleTask(p, pos) == [k |-> "settle", p |-> p, pos |-> pos]
RejectTask(p, pos, err) == [k |-> "reject", p |-> p, pos |-> pos, err |-> err]

\* ------------------------------------------------------------- checkRep
\* every cell: controlled => face up with a value; removed => face down and
\* uncontrolled; every player: at most two controlled cells, tracker in bounds.
\* (checkRep walks this.players; a player not yet in that map controls
\* nothing and has an empty tracker, so ranging over Players is the same.)
ControlledCount(b, p) == Cardinality({pos \in Positions : b.controlledBy[pos] = p})

checkRep(b) ==
    /\ \A pos \in Positions :
          /\ b.controlledBy[pos] # Null => (b.faceUp[pos] /\ b.value[pos] # Null)
          /\ b.value[pos] = Null => (~b.faceUp[pos] /\ b.controlledBy[pos] = Null)
    /\ \A p \in Players :
          /\ ControlledCount(b, p) <= 2
          /\ b.firstCard[p] # NoCard => InBounds(b.firstCard[p])
          /\ b.secondCard[p] # NoCard => InBounds(b.secondCard[p])

\* ------------------------------------------------------ relinquishControl
\* resolve() of a waiter queues its continuation as a microtask
WakeAll(q, pos) == [i \in 1..Len(q) |-> ResumeTask(q[i], pos)]

\* variant: queue.pop() in place of queue.shift(), the newest waiter is woken
relinquishControl_WakeLast(b, cardPos, wakeAll) ==
    IF ~InBounds(cardPos) THEN b
    ELSE LET b1 == [b EXCEPT !.controlledBy[cardPos] = Null]
             queue == b.waiters[cardPos]
         IN IF Len(queue) = 0 THEN b1
            ELSE IF wakeAll
                 THEN [b1 EXCEPT !.tasks = @ \o WakeAll(queue, cardPos),
                                 !.waiters[cardPos] = << >>]
                 ELSE [b1 EXCEPT !.tasks = Append(@, ResumeTask(queue[Len(queue)], cardPos)),
                                 !.waiters[cardPos] = SubSeq(queue, 1, Len(queue) - 1)]

\* variant: queue[0] is resolved but not shifted out of the queue
relinquishControl_HeadKept(b, cardPos, wakeAll) ==
    IF ~InBounds(cardPos) THEN b
    ELSE LET b1 == [b EXCEPT !.controlledBy[cardPos] = Null]
             queue == b.waiters[cardPos]
         IN IF Len(queue) = 0 THEN b1
            ELSE IF wakeAll
                 THEN [b1 EXCEPT !.tasks = @ \o WakeAll(queue, cardPos),
                                 !.waiters[cardPos] = << >>]
                 ELSE [b1 EXCEPT !.tasks = Append(@, ResumeTask(Head(queue), cardPos))]

\* variant: a removal resolves every waiter and leaves the queue in the map
relinquishControl_QueueKeptOnRemoval(b, cardPos, wakeAll) ==
    IF ~InBounds(cardPos) THEN b
    ELSE LET b1 == [b EXCEPT !.controlledBy[cardPos] = Null]
             queue == b.waiters[cardPos]
         IN IF Len(queue) = 0 THEN b1
            ELSE IF wakeAll
                 THEN [b1 EXCEPT !.tasks = @ \o WakeAll(queue, cardPos)]
                 ELSE [b1 EXCEPT !.tasks = Append(@, ResumeTask(Head(queue), cardPos)),
                                 !.waiters[cardPos] = Tail(queue)]

relinquishControl(b, cardPos, wakeAll) ==
    IF ~InBounds(cardPos) THEN b
    ELSE LET b1 == [b EXCEPT !.controlledBy[cardPos] = Null]
             queue == b.waiters[cardPos]
         IN IF Len(queue) = 0 THEN b1
            ELSE IF wakeAll
                 THEN [b1 EXCEPT !.tasks = @ \o WakeAll(queue, cardPos),
                                 !.waiters[cardPos] = << >>]
                 ELSE [b1 EXCEPT !.tasks = Append(@, ResumeTask(Head(queue), cardPos)),
                                 !.waiters[cardPos] = Tail(queue)]

\* ----------------------------------------------------- finishPreviousTurn
\* result: the board after the pre-step, the error thrown ("" for none) and
\* which of rule 3-A / 3-B ran
clearTurn(b, p) ==
    [b EXCEPT !.firstCard[p] = NoCard, !.secondCard[p] = NoCard,
              !.hasMatched[p] = FALSE]

\* variant: the removed cards keep their face
removePair_FaceKept(b, first, second) ==
    LET b1 == [b EXCEPT !.value[first] = Null]
        b2 == [b1 EXCEPT !.value[second] = Null]
        b3 == relinquishControl(b2, first, TRUE)
    IN relinquishControl(b3, second, TRUE)

\* variant: removal wakes only the head waiter of each removed card
removePair_WakeOne(b, first, second) ==
    LET b1 == [b EXCEPT !.value[first] = Null, !.faceUp[first] = FALSE]
        b2 == [b1 EXCEPT !.value[second] = Null, !.faceUp[second] = FALSE]
        b3 == relinquishControl(b2, first, FALSE)
    IN relinquishControl(b3, second, FALSE)

removePair(b, first, second) ==
    LET b1 == [b EXCEPT !.value[first] = Null, !.faceUp[first] = FALSE]
        b2 == [b1 EXCEPT !.value[second] = Null, !.faceUp[second] = FALSE]
        b3 == relinquishControl(b2, first, TRUE)
    IN relinquishControl(b3, second, TRUE)

turnDown(b, pos) ==
    IF b.value[pos] # Null /\ b.faceUp[pos] /\ b.controlledBy[pos] = Null
    THEN [b EXCEPT !.faceUp[pos] = FALSE]
    ELSE b

finishPreviousTurn(b, p) ==
    LET first == b.firstCard[p]
        second == b.secondCard[p]
    IN IF first = NoCard \/ second = NoCard
       THEN [b |-> b, err |-> "", pre |-> "none"]
       ELSE IF ~InBounds(first) \/ ~InBounds(second)
       THEN [b |-> b, err |-> ErrInvalid, pre |-> "throw"]
       ELSE IF /\ b.hasMatched[p]
               /\ b.value[first] # Null /\ b.value[second] # Null
               /\ b.value[first] = b.value[second]
       THEN [b |-> clearTurn(removePair(b, first, second), p),
             err |-> "", pre |-> "3-A"]
       ELSE [b |-> clearTurn(turnDown(turnDown(b, first), second), p),
             err |-> "", pre |-> "3-B"]

\* -------------------------------------------------------------- flipFirst
\* the synchronous part, up to `await deferred.promise`
takeControl(b, p, pos) ==
    [b EXCEPT !.faceUp[pos] = TRUE, !.controlledBy[pos] = p,
              !.firstCard[p] = pos]

\* variant: only a face-down card is taken at once
flipFirst_FaceDownOnly(b, p, pos) ==
    IF ~InBounds(pos) \/ b.value[pos] = Null
    THEN [b |-> b, res |-> ErrNoCard, rule |-> "1-A", notify |-> FALSE]
    ELSE IF ~b.faceUp[pos]
    THEN [b |-> [takeControl(b, p, pos) EXCEPT !.tasks = Append(@, SettleTask(p, pos))],
          res |-> "ok", rule |-> "1-BC", notify |-> FALSE]
    ELSE [b |-> [b EXCEPT !.waiters[pos] = Append(@, p)],
          res |-> "wait", rule |-> "1-D", notify |-> FALSE]

\* variant: a card is taken at once whoever controls it
flipFirst_NeverWaits(b, p, pos) ==
    IF ~InBounds(pos) \/ b.value[pos] = Null
    THEN [b |-> b, res |-> ErrNoCard, rule |-> "1-A", notify |-> FALSE]
    ELSE [b |-> [takeControl(b, p, pos) EXCEPT !.tasks = Append(@, SettleTask(p, pos))],
          res |-> "ok", rule |-> "1-BC", notify |-> FALSE]

\* variant: rule 1-A records the position as rule 2-A does
flipFirst_NoCardRecorded(b, p, pos) ==
    IF ~InBounds(pos) \/ b.value[pos] = Null
    THEN [b |-> [b EXCEPT !.firstCard[p] = pos], res |-> ErrNoCard,
          rule |-> "1-A", notify |-> FALSE]
    ELSE IF ~b.faceUp[pos] \/ b.controlledBy[pos] = Null
    THEN [b |-> [takeControl(b, p, pos) EXCEPT !.tasks = Append(@, SettleTask(p, pos))],
          res |-> "ok", rule |-> "1-BC", notify |-> FALSE]
    ELSE [b |-> [b EXCEPT !.waiters[pos] = Append(@, p)],
          res |-> "wait", rule |-> "1-D", notify |-> FALSE]

flipFirst(b, p, pos) ==
    IF ~InBounds(pos) \/ b.value[pos] = Null
    THEN [b |-> b, res |-> ErrNoCard, rule |-> "1-A", notify |-> FALSE]
    ELSE IF ~b.faceUp[pos] \/ b.controlledBy[pos] = Null
    THEN [b |-> [takeControl(b, p, pos) EXCEPT !.tasks = Append(@, SettleTask(p, pos))],
          res |-> "ok", rule |-> "1-BC", notify |-> FALSE]
    ELSE [b |-> [b EXCEPT !.waiters[pos] = Append(@, p)],
          res |-> "wait", rule |-> "1-D", notify |-> FALSE]

\* the continuation after `await deferred.promise`
resumeFirst(b, p, pos) ==
    IF ~InBounds(pos) \/ b.value[pos] = Null
    THEN [b |-> [b EXCEPT !.tasks = Append(@, RejectTask(p, pos, ErrGone))],
          res |-> ErrGone, rule |-> "1-D gone", notify |-> FALSE]
    ELSE [b |-> [takeControl(b, p, pos) EXCEPT !.tasks = Append(@, SettleTask(p, pos))],
          res |-> "ok", rule |-> "1-D taken", notify |-> FALSE]

\* ------------------------------------------------------------- flipSecond
\* rules 2-A and 2-B end the turn, run checkRep and throw
failSecond(b, p, pos, err, rule) ==
    LET b1 == relinquishControl(b, b.firstCard[p], FALSE)
        b2 == [b1 EXCEPT !.secondCard[p] = pos, !.hasMatched[p] = FALSE]
    IN [b |-> b2, res |-> IF checkRep(b2) THEN err ELSE ErrAssert, rule |-> rule,
        notify |-> checkRep(b2)]

\* variant: rule 2-B waits for the controlled target as rule 1-D does
flipSecond_WaitsOnControlled(b, p, pos) ==
    LET first == b.firstCard[p] IN
    IF ~InBounds(pos) \/ b.value[pos] = Null
    THEN failSecond(b, p, pos, ErrNoCard, "2-A")
    ELSE IF b.faceUp[pos] /\ b.controlledBy[pos] # Null
    THEN [b |-> [b EXCEPT !.waiters[pos] = Append(@, p)],
          res |-> "wait", rule |-> "2-B", notify |-> FALSE]
    ELSE LET b1 == [b EXCEPT !.faceUp[pos] = TRUE, !.secondCard[p] = pos]
         IN IF b1.value[first] = b1.value[pos]
            THEN [b |-> [b1 EXCEPT !.controlledBy[first] = p,
                                   !.controlledBy[pos] = p,
                                   !.hasMatched[p] = TRUE,
                                   !.tasks = Append(@, SettleTask(p, pos))],
                  res |-> "ok", rule |-> "2-D", notify |-> FALSE]
            ELSE LET b2 == relinquishControl(b1, first, FALSE)
                     b3 == relinquishControl(b2, pos, FALSE)
                 IN [b |-> [b3 EXCEPT !.hasMatched[p] = FALSE,
                                      !.tasks = Append(@, SettleTask(p, pos))],
                     res |-> "ok", rule |-> "2-E", notify |-> FALSE]

flipSecond(b, p, pos) ==
    LET first == b.firstCard[p] IN
    IF ~InBounds(pos) \/ b.value[pos] = Null
    THEN failSecond(b, p, pos, ErrNoCard, "2-A")
    ELSE IF b.faceUp[pos] /\ b.controlledBy[pos] # Null
    THEN failSecond(b, p, pos, ErrControlled, "2-B")
    ELSE LET b1 == [b EXCEPT !.faceUp[pos] = TRUE, !.secondCard[p] = pos]
         IN IF b1.value[first] = b1.value[pos]
            THEN [b |-> [b1 EXCEPT !.controlledBy[first] = p,
                                   !.controlledBy[pos] = p,
                                   !.hasMatched[p] = TRUE,
                                   !.tasks = Append(@, SettleTask(p, pos))],
                  res |-> "ok", rule |-> "2-D", notify |-> FALSE]
            ELSE LET b2 == relinquishControl(b1, first, FALSE)
                     b3 == relinquishControl(b2, pos, FALSE)
                 IN [b |-> [b3 EXCEPT !.hasMatched[p] = FALSE,
                                      !.tasks = Append(@, SettleTask(p, pos))],
                     res |-> "ok", rule |-> "2-E", notify |-> FALSE]

\* ------------------------------------------------------------------- flip
\* the synchronous part of flip: the pre-step, then the first or second card.
\* An error of the pre-step rejects the promise of flip at once; an error
\* thrown by flipFirst or flipSecond rejects the promise flip awaits, and
\* flip itself is left one microtask later, after the continuations that
\* were queued before.
flip(b, p, pos) ==
    LET fin == finishPreviousTurn(b, p) IN
    IF fin.err # ""
    THEN [b |-> fin.b, res |-> fin.err, rule |-> "3-throw", notify |-> FALSE]
    ELSE LET r == IF fin.b.firstCard[p] # NoCard
                  THEN flipSecond(fin.b, p, pos)
                  ELSE flipFirst(fin.b, p, pos)
         IN IF r.res \in {"ok", "wait"}
            THEN r
            ELSE [r EXCEPT !.b.tasks = Append(@, RejectTask(p, pos, r.res))]

Suspended(b) ==
    LET n[S \in SUBSET Positions] ==
            IF S = {} THEN 0
            ELSE LET x == CHOOSE y \in S : TRUE
                 IN Len(b.waiters[x]) + n[S \ {x}]
    IN n[Positions]

\* p has a flip that has not returned to its caller yet
InFlight(p) ==
    \/ \E pos \in Positions : \E i \in 1..Len(waiters[pos]) : waiters[pos][i] = p
    \/ \E i \in 1..Len(tasks) : tasks[i].p = p

Install(b) ==
    /\ value' = b.value
    /\ faceUp' = b.faceUp
    /\ controlledBy' = b.controlledBy
    /\ firstCard' = b.firstCard
    /\ secondCard' = b.secondCard
    /\ hasMatched' = b.hasMatched
    /\ waiters' = b.waiters
    /\ tasks' = b.tasks

\* variant: the callbacks are called but the list is not reset
triggerBoardChange_ListKept(callbacks) ==
    [called |-> callbacks, callbacks |-> callbacks]

\* every callback is called, which resolves its watch, and the list is reset
triggerBoardChange(callbacks) ==
    [called |-> callbacks, callbacks |-> << >>]

\* the step called triggerBoardChange, or it did not
Notify(fired) ==
    listeners' = IF fired THEN triggerBoardChange(listeners).callbacks ELSE listeners

\* the watches the step resolved
Resolved(fired) ==
    IF fired THEN triggerBoardChange(listeners).called ELSE << >>

\* ---------------------------------------------------------------- actions
Init ==
    /\ value = [pos \in Positions |-> Cards[pos[1] + 1][pos[2] + 1]]
    /\ faceUp = [pos \in Positions |-> FALSE]
    /\ controlledBy = [pos \in Positions |-> Null]
    /\ firstCard = [p \in Players |-> NoCard]
    /\ secondCard = [p \in Players |-> NoCard]
    /\ hasMatched = [p \in Players |-> FALSE]
    /\ waiters = [pos \in Positions |-> << >>]
    /\ tasks = << >>
    /\ listeners = << >>
    /\ maps = << >>
    /\ last = [op |-> "init", p |-> Null, pos |-> NoCard, res |-> "ok", rule |-> "",
               notify |-> FALSE, resolved |-> << >>, view |-> << >>]
    /\ jj = [p \in Players |-> 0]

\* p has turned a first card and not yet tried a second one
TurnOpen(p) == firstCard[p] # NoCard /\ secondCard[p] = NoCard

\* the synchronous part of board.flip(p, row, col), up to its first await
Call(p, pos) ==
    LET r == flip(Board, p, pos) IN
    /\ Install(r.b)
    /\ Notify(r.notify)
    /\ maps' = maps
    /\ last' = [op |-> "flip", p |-> p, pos |-> pos, res |-> r.res, rule |-> r.rule,
                notify |-> r.notify, resolved |-> Resolved(r.notify),
                view |-> << >>]

\* board.flip(p, row, col) by a client none of whose earlier flips is still
\* suspended or has a continuation queued
Flip(p, pos) ==
    /\ ~InFlight(p)
    /\ Call(p, pos)
    /\ jj' = jj

\* a client calls board.flip(p, row, col) whether or not its last call returned
FlipOpen(p, pos) ==
    /\ Suspended(flip(Board, p, pos).b) + Len(flip(Board, p, pos).b.tasks) <= MaxInFlight
    /\ Call(p, pos)
    /\ jj' = jj

\* the microtask at the head of the queue runs: a woken waiter resumes
Resume ==
    /\ tasks # << >>
    /\ Head(tasks).k = "resume"
    /\ jj' = jj
    /\ LET t == Head(tasks)
           r == resumeFirst([Board EXCEPT !.tasks = Tail(tasks)], t.p, t.pos)
       IN /\ Install(r.b)
          /\ Notify(r.notify)
          /\ maps' = maps
          /\ last' = [op |-> "resume", p |-> t.p, pos |-> t.pos, res |-> r.res,
                      rule |-> r.rule, notify |-> r.notify,
                      resolved |-> Resolved(r.notify), view |-> << >>]

\* the microtask at the head of the queue runs: the await of flip throws the
\* error of flipFirst or flipSecond, and the promise of flip is rejected
Reject ==
    /\ tasks # << >>
    /\ Head(tasks).k = "reject"
    /\ jj' = jj
    /\ LET t == Head(tasks)
       IN /\ Install([Board EXCEPT !.tasks = Tail(tasks)])
          /\ Notify(FALSE)
          /\ maps' = maps
          /\ last' = [op |-> "reject", p |-> t.p, pos |-> t.pos,
                      res |-> t.err, rule |-> "reject", notify |-> FALSE,
                      resolved |-> << >>, view |-> << >>]

\* the microtask at the head of the queue runs: the tail of flip after its
\* await, checkRep and then triggerBoardChange
Settle ==
    /\ tasks # << >>
    /\ Head(tasks).k = "settle"
    /\ jj' = jj
    /\ LET t == Head(tasks)
           b == [Board EXCEPT !.tasks = Tail(tasks)]
       IN /\ Install(b)
          /\ Notify(checkRep(b))
          /\ maps' = maps
          /\ last' = [op |-> "settle", p |-> t.p, pos |-> t.pos,
                      res |-> IF checkRep(b) THEN "ok" ELSE ErrAssert,
                      rule |-> "settle", notify |-> checkRep(b),
                      resolved |-> Resolved(checkRep(b)), view |-> << >>]

\* variant: a card is shown as 'my' whoever controls it
look_MyForAnyController(b, playerId) ==
    << ToString(Rows) \o "x" \o ToString(Cols) >> \o
    [i \in 1..(Rows * Cols) |->
        LET pos == <<(i - 1) \div Cols, (i - 1) % Cols>> IN
        IF b.value[pos] = Null THEN "none"
        ELSE IF ~b.faceUp[pos] THEN "down"
        ELSE IF b.controlledBy[pos] # Null THEN "my " \o b.value[pos]
        ELSE "up " \o b.value[pos]]

\* the lines of the string look(playerId) returns: the size, then one line
\* for each cell, row by row
look(b, playerId) ==
    << ToString(Rows) \o "x" \o ToString(Cols) >> \o
    [i \in 1..(Rows * Cols) |->
        LET pos == <<(i - 1) \div Cols, (i - 1) % Cols>> IN
        IF b.value[pos] = Null THEN "none"
        ELSE IF ~b.faceUp[pos] THEN "down"
        ELSE IF b.controlledBy[pos] = playerId THEN "my " \o b.value[pos]
        ELSE "up " \o b.value[pos]]

\* board.look(playerId)
Look(playerId) ==
    /\ last' = [op |-> "look", p |-> playerId, pos |-> NoCard, res |-> "ok",
                rule |-> "look", notify |-> FALSE, resolved |-> << >>,
                view |-> look(Board, playerId)]
    /\ UNCHANGED <<value, faceUp, controlledBy, firstCard, secondCard, hasMatched,
                   waiters, tasks, listeners, maps, jj>>

\* variant: watch counts as a change of the board and resolves the watches
\* registered before it
Watch_NotifiesOthers(playerId) ==
    /\ Len(listeners) < MaxListeners
    /\ listeners' = Append(triggerBoardChange(listeners).callbacks, playerId)
    /\ last' = [op |-> "watch", p |-> playerId, pos |-> NoCard, res |-> "ok",
                rule |-> "watch", notify |-> FALSE, resolved |-> listeners,
                view |-> << >>]
    /\ UNCHANGED <<value, faceUp, controlledBy, firstCard, secondCard, hasMatched,
                   waiters, tasks, maps, jj>>

\* board.watch(playerId): the callback is pushed and the promise returned
Watch(playerId) ==
    /\ Len(listeners) < MaxListeners
    /\ listeners' = Append(listeners, playerId)
    /\ last' = [op |-> "watch", p |-> playerId, pos |-> NoCard, res |-> "ok",
                rule |-> "watch", notify |-> FALSE, resolved |-> << >>,
                view |-> << >>]
    /\ UNCHANGED <<value, faceUp, controlledBy, firstCard, secondCard, hasMatched,
                   waiters, tasks, maps, jj>>

\* ------------------------------------------------------------------- map
\* variant: without the valueMap.has test, f is called for every non-empty
\* cell
RECURSIVE valueMap_EveryCell(_, _)
valueMap_EveryCell(b, i) ==
    IF i = 0 THEN << >>
    ELSE LET keys == valueMap_EveryCell(b, i - 1)
             card == b.value[CellOfLine(i)]
         IN IF card = Null THEN keys ELSE Append(keys, card)

\* the keys of valueMap after the first i cells: the distinct values of the
\* non-empty cells, in the order in which the loop meets them; f is called
\* once when a key is added
RECURSIVE valueMap(_, _)
valueMap(b, i) ==
    IF i = 0 THEN << >>
    ELSE LET keys == valueMap(b, i - 1)
             card == b.value[CellOfLine(i)]
         IN IF card = Null \/ \E j \in 1..Len(keys) : keys[j] = card
            THEN keys
            ELSE Append(keys, card)

\* valueMap.has(card) / results.get(card) # undefined
HasKey(keys, card) == \E j \in 1..Len(keys) : keys[j] = card

\* variant: only the first cell that holds a key is rewritten
writeBack_FirstCellOnly(b, m) ==
    [b EXCEPT !.value =
        [pos \in Positions |->
            IF /\ b.value[pos] # Null /\ HasKey(m.keys, b.value[pos])
               /\ \A i \in 1..(Rows * Cols) :
                     (b.value[CellOfLine(i)] = b.value[pos]
                        /\ CellOfLine(i) # pos)
                     => \E j \in 1..(i - 1) : CellOfLine(j) = pos
            THEN f(m.f, b.value[pos])
            ELSE b.value[pos]]]

\* variant: the write turns every rewritten card face down
writeBack_FaceDown(b, m) ==
    [b EXCEPT !.value =
                [pos \in Positions |->
                    IF b.value[pos] # Null /\ HasKey(m.keys, b.value[pos])
                    THEN f(m.f, b.value[pos])
                    ELSE b.value[pos]],
              !.faceUp =
                [pos \in Positions |->
                    b.faceUp[pos]
                    /\ ~(b.value[pos] # Null /\ HasKey(m.keys, b.value[pos]))]]

\* variant: the write does not skip the empty cells, they get the output
\* for the first key
writeBack_EmptyRefilled(b, m) ==
    [b EXCEPT !.value =
        [pos \in Positions |->
            IF b.value[pos] # Null /\ HasKey(m.keys, b.value[pos])
            THEN f(m.f, b.value[pos])
            ELSE IF b.value[pos] = Null /\ m.keys # << >>
            THEN f(m.f, m.keys[1])
            ELSE b.value[pos]]]

\* the second loop of map: every non-empty cell whose value is a key of
\* results gets the value f returned for that key
writeBack(b, m) ==
    [b EXCEPT !.value =
        [pos \in Positions |->
            IF b.value[pos] # Null /\ HasKey(m.keys, b.value[pos])
            THEN f(m.f, b.value[pos])
            ELSE b.value[pos]]]

MapLast(rule, res, fired) ==
    [op |-> "map", p |-> Null, pos |-> NoCard, res |-> res, rule |-> rule,
     notify |-> fired, resolved |-> Resolved(fired), view |-> << >>]

\* variant: a rejected promise counts as settled, map goes on to its write
Awaited_RejectionIgnored(m) ==
    IF \E i \in 1..Len(m.st) : m.st[i] = "pending"
    THEN CHOOSE i \in 1..Len(m.st) :
            m.st[i] = "pending" /\ \A j \in 1..(i - 1) : m.st[j] # "pending"
    ELSE 0

\* variant: map awaits the promise of its first key only
Awaited_FirstOnly(m) ==
    IF m.st[1] # "fulfilled" THEN 1 ELSE 0

\* the promise map awaits next: the first one not known to be fulfilled
Awaited(m) ==
    IF \E i \in 1..Len(m.st) : m.st[i] # "fulfilled"
    THEN CHOOSE i \in 1..Len(m.st) :
            m.st[i] # "fulfilled" /\ \A j \in 1..(i - 1) : m.st[j] = "fulfilled"
    ELSE 0

\* the end of map after its last await: the write, checkRep and the
\* notification
finishMap(b, m) ==
    LET b1 == writeBack(b, m)
    IN [b |-> b1, res |-> IF checkRep(b1) THEN "ok" ELSE ErrAssert,
        rule |-> "map-write", notify |-> checkRep(b1)]

\* board.map(f) up to its first await: f is called for every distinct card
\* of the board; on a board without cards map runs to its end at once
Map(name) ==
    /\ Len(maps) < MaxMaps
    /\ jj' = jj
    /\ LET keys == valueMap(Board, Rows * Cols)
           m == [f |-> name, keys |-> keys, st |-> [i \in 1..Len(keys) |-> "pending"]]
       IN IF keys = << >>
          THEN LET r == finishMap(Board, m)
               IN /\ Install(r.b) /\ Notify(r.notify) /\ maps' = maps
                  /\ last' = MapLast(r.rule, r.res, r.notify)
          ELSE /\ maps' = Append(maps, m)
               /\ last' = MapLast("map-call", "wait", FALSE)
               /\ UNCHANGED <<value, faceUp, controlledBy, firstCard, secondCard,
                              hasMatched, waiters, tasks, listeners>>

\* the promise f returned for key i of a running map settles. map awaits
\* the promises one after the other, so a promise it has not come to yet has
\* no handler: if that promise is rejected the rejection is unhandled until
\* map reaches it (Unhandled).
Transform(k, i) ==
    /\ k \in 1..Len(maps) /\ i \in 1..Len(maps[k].keys)
    /\ maps[k].st[i] = "pending"
    /\ maps' = [maps EXCEPT ![k].st[i] =
                    IF f(maps[k].f, maps[k].keys[i]) = Rejects
                    THEN "rejected" ELSE "fulfilled"]
    /\ last' = MapLast("map-transform", "wait", FALSE)
    /\ jj' = jj
    /\ UNCHANGED <<value, faceUp, controlledBy, firstCard, secondCard,
                   hasMatched, waiters, tasks, listeners>>

Without(s, k) == SubSeq(s, 1, k - 1) \o SubSeq(s, k + 1, Len(s))

\* a running map continues after its awaits: every promise is fulfilled and
\* the results are written, or the awaited promise is rejected and map throws
MapReturn(k) ==
    /\ k \in 1..Len(maps)
    /\ jj' = jj
    /\ LET m == maps[k] IN
       \/ /\ Awaited(m) = 0
          /\ LET r == finishMap(Board, m)
             IN /\ Install(r.b) /\ Notify(r.notify)
                /\ last' = MapLast(r.rule, r.res, r.notify)
          /\ maps' = Without(maps, k)
       \/ /\ Awaited(m) # 0 /\ m.st[Awaited(m)] = "rejected"
          /\ maps' = Without(maps, k)
          /\ last' = MapLast("map-fail", ErrTransform, FALSE)
          /\ UNCHANGED <<value, faceUp, controlledBy, firstCard, secondCard,
                         hasMatched, waiters, tasks, listeners>>

\* ----------------------------------------------------------- parseFromFile
\* a first line that does not match /^(\d+)+x(\d+)$/
BadHeader == [match |-> FALSE, rows |-> 0, cols |-> 0]
\* the first lines of the files: malformed, or the two numbers of "RxC"
Headers == {BadHeader} \cup [match : {TRUE}, rows : 0..MaxDim, cols : 0..MaxDim]
\* the lines after the first: cards, or empty lines
BodyLines == {"A", "B", ""}
Bodies == UNION {[1..n -> BodyLines] : n \in 0..MaxBodyLines}

\* data.trim(): the empty lines at the end of the file are dropped
RECURSIVE trim(_)
trim(lines) ==
    IF lines # << >> /\ lines[Len(lines)] = ""
    THEN trim(SubSeq(lines, 1, Len(lines) - 1))
    ELSE lines

\* the board file is read: the first rows * cols lines after the header are
\* the cards, each of them must be there and not be empty; the checkRep of
\* the new board then asserts that rows and cols are positive
parseFromFile(header, body) ==
    LET gridLines == trim(body) IN
    IF ~header.match
    THEN [res |-> ErrParse, grid |-> << >>]
    ELSE IF \E i \in 1..(header.rows * header.cols) :
                i > Len(gridLines) \/ gridLines[i] = ""
         THEN [res |-> ErrParse, grid |-> << >>]
         ELSE IF ~(header.rows > 0 /\ header.cols > 0)
         THEN [res |-> ErrParse, grid |-> << >>]
         ELSE [res |-> "ok",
               grid |-> [r \in 1..header.rows |->
                          [c \in 1..header.cols |->
                              gridLines[(r - 1) * header.cols + c]]]]

\* Board.parseFromFile(filename) on a file with these lines; the board in
\* play is another object and stays as it is
Parse(header, body) ==
    /\ last' = [op |-> "parse", p |-> Null, pos |-> NoCard,
                res |-> parseFromFile(header, body).res, rule |-> "parse",
                notify |-> FALSE, resolved |-> << >>, view |-> << >>,
                header |-> header, body |-> body,
                grid |-> parseFromFile(header, body).grid]
    /\ UNCHANGED <<value, faceUp, controlledBy, firstCard, secondCard, hasMatched,
                   waiters, tasks, listeners, maps, jj>>

\* players that name positions of the board (the documented precondition of
\* flip) and call flip only when none of their earlier flips is still
\* suspended or has a continuation queued; calls of different players
\* interleave freely with the queued continuations
Next ==
    \/ \E p \in Players, pos \in Positions : Flip(p, pos)
    \/ Resume
    \/ Settle
    \/ Reject

Spec == Init /\ [][Next]_vars

\* clients that name any position and do not await: a player may have several
\* flips in flight
NextOpen ==
    \/ \E p \in Reentrant, pos \in FlipTargets : FlipOpen(p, pos)
    \/ Resume
    \/ Settle
    \/ Reject

SpecOpen == Init /\ [][NextOpen]_vars

\* ------------------------------------------------------------- simulation
\* player(playerNumber) of simulation.ts: after a timeout the player flips a
\* random card; a turn begins with a flip as a first card and, if that flip
\* succeeded, goes on with one more flip. Every flip is awaited and issued
\* from a timer, so no continuation is waiting to run when it is called.
SimFlip(p, pos) ==
    /\ tasks = << >>
    /\ ~InFlight(p)
    /\ TurnOpen(p) \/ jj[p] < tries
    /\ Call(p, pos)
    /\ jj' = IF TurnOpen(p) THEN jj ELSE [jj EXCEPT ![p] = @ + 1]

\* player(p) has returned: the loop is over and no flip of it is pending
Finished(p) == jj[p] = tries /\ ~TurnOpen(p) /\ ~InFlight(p)

\* player(p) is between two flips, waiting for its timeout
TimerSet(p) == ~InFlight(p) /\ (TurnOpen(p) \/ jj[p] < tries)

NextSim ==
    \/ \E p \in Players, pos \in Positions : SimFlip(p, pos)
    \/ Resume
    \/ Settle
    \/ Reject

\* the timeout of a player that is between two flips expires and the flip is
\* issued: weak fairness of the flips of p, with the condition under which p
\* can flip written out
TimerFires(p) ==
    \/ []<>(~TimerSet(p) \/ tasks # << >>)
    \/ []<><<last'.op = "flip" /\ last'.p = p>>_vars

\* simulationMain: the players run until each has done its turns; the
\* runtime drains the microtask queue and fires every timer
SpecSim ==
    /\ Init /\ [][NextSim]_vars
    /\ WF_vars(Resume) /\ WF_vars(Settle) /\ WF_vars(Reject)
    /\ \A p \in Players : TimerFires(p)

\* board files are parsed
NextParse == \E header \in Headers, body \in Bodies : Parse(header, body)

SpecParse == Init /\ [][NextParse]_vars

\* SpecWatch: the players that flip, as the players of Spec do
Flippers == {"alice", "bob"}

\* two players flip, and every player looks at the board and watches it
NextWatch ==
    \/ \E p \in Flippers, pos \in Positions : Flip(p, pos)
    \/ Resume
    \/ Settle
    \/ Reject
    \/ \E p \in Players : Look(p)
    \/ \E p \in Players : Watch(p)

SpecWatch == Init /\ [][NextWatch]_vars

\* SpecMap: the player that flips
MapPlayer == "alice"

\* a promise of a running map is rejected and map is not awaiting it: the
\* rejection has no handler
Unhandled ==
    \E k \in 1..Len(maps) : \E i \in 1..Len(maps[k].st) :
        maps[k].st[i] = "rejected" /\ Awaited(maps[k]) # i

\* the microtask queue has drained and a rejection is still unhandled: the
\* host ends the process
Exit ==
    /\ tasks = << >>
    /\ Unhandled
    /\ last' = MapLast("exit", ErrTransform, FALSE)
    /\ jj' = jj
    /\ UNCHANGED <<value, faceUp, controlledBy, firstCard, secondCard,
                   hasMatched, waiters, tasks, listeners, maps>>

\* an unhandled rejection has ended the process: nothing runs any more
Exited == last.rule = "exit"

\* one player flips, awaiting each flip, while calls of map run; a lone
\* player never finds a card controlled by another, so no flip suspends
NextMap ==
    \/ ~Exited /\ \E pos \in Positions : Flip(MapPlayer, pos)
    \/ ~Exited /\ Settle
    \/ ~Exited /\ Reject
    \/ ~Exited /\ \E name \in Transforms : Map(name)
    \/ ~Exited /\ \E k \in 1..MaxMaps, i \in 1..(Rows * Cols) : Transform(k, i)
    \/ ~Exited /\ \E k \in 1..MaxMaps : MapReturn(k)
    \/ ~Exited /\ Exit

SpecMap == Init /\ [][NextMap]_vars

\* two players contend for the cards, so flips suspend and resume, and one
\* of them looks at the board, while one map at a time renames the cards
NextMapWait ==
    \/ \E p \in Flippers, pos \in Positions : Flip(p, pos)
    \/ Resume
    \/ Settle
    \/ Reject
    \/ maps = << >> /\ Map("rename")
    \/ \E i \in 1..(Rows * Cols) : Transform(1, i)
    \/ MapReturn(1)
    \/ Look(MapPlayer)

SpecMapWait == Init /\ [][NextMapWait]_vars

\* ------------------------------------------------------ data-model invariants
TrackerPointsAt(p, pos) == firstCard[p] = pos \/ secondCard[p] = pos

\* C1: in every reachable state every cell that has a controller is face up
\* and holds a card.
C1_ControlledIsFaceUpWithValue ==
    \A pos \in Positions :
        controlledBy[pos] # Null => (faceUp[pos] /\ value[pos] # Null)

\* C2: in every reachable state every removed cell is face down and has no
\* controller.
C2_EmptyIsFaceDownUncontrolled ==
    \A pos \in Positions :
        value[pos] = Null => (~faceUp[pos] /\ controlledBy[pos] = Null)

\* a matched pair has been removed while another player's open turn still
\* has one of its cells as first card
C2_Witness ==
    \E pos \in Positions, p \in Players :
        /\ value[pos] = Null
        /\ firstCard[p] = pos /\ secondCard[p] = NoCard

\* C3: in every reachable state each player is the controller of at most two
\* cells.
C3_AtMostTwoControlled ==
    \A p \in Players : ControlledCount(Board, p) <= 2

\* C4: in every reachable state, if a cell is controlled then exactly one
\* player's turn tracker (firstCard or secondCard) points at that cell, and
\* that player is the cell's controller.
C4_ControllerIsUniqueTracker ==
    \A pos \in Positions :
        controlledBy[pos] # Null =>
            {p \in Players : TrackerPointsAt(p, pos)} = {controlledBy[pos]}

\* C4, without its uniqueness clause: in every reachable state the tracker
\* (firstCard or secondCard) of a cell's controller points at that cell.
C4_ControllerTracksCell ==
    \A pos \in Positions :
        controlledBy[pos] # Null => TrackerPointsAt(controlledBy[pos], pos)

\* C5: in every reachable state every recorded firstCard and secondCard of
\* every player is a position of the grid.
C5_TrackerInBounds ==
    \A p \in Players :
        /\ firstCard[p] # NoCard => InBounds(firstCard[p])
        /\ secondCard[p] # NoCard => InBounds(secondCard[p])

\* ------------------------------------------------------- steps of the board
IsPrefix(s, t) == Len(s) <= Len(t) /\ SubSeq(t, 1, Len(s)) = s

\* this step is the synchronous part of flip(p, pos)
FlipStep(p, pos) == last'.op = "flip" /\ last'.p = p /\ last'.pos = pos

\* the continuations this step queued: what the queue holds after the step
\* beyond what it held before, less the head when the step was that
\* continuation running
NewTasks ==
    LET kept == IF last'.op \in {"resume", "settle", "reject"}
                THEN Len(tasks) - 1 ELSE Len(tasks)
    IN SubSeq(tasks', kept + 1, Len(tasks'))

\* the waiters of pos this step woke, in the order it woke them
WokenAt(pos) ==
    LET woken == SelectSeq(NewTasks, LAMBDA t : t.k = "resume" /\ t.pos = pos)
    IN [i \in 1..Len(woken) |-> woken[i].p]

\* this step called relinquishControl(pos) under rule 2-A, 2-B or 2-E
ReleasedIn(pos) ==
    /\ last'.op = "flip"
    /\ last'.rule \in {"2-A", "2-B", "2-E"}
    /\ firstCard[last'.p] = pos \/ (last'.rule = "2-E" /\ last'.pos = pos)

\* this step removed the card at pos (rule 3-A)
RemovedIn(pos) == value[pos] # Null /\ value'[pos] = Null

NoCardHere == {ErrNoCard, ErrGone}

\* C6: a first-card flip (no first card recorded after the pre-step) on a
\* present cell with no controller, face down or face up, does not suspend
\* and leaves the cell face up, controlled by the caller and recorded as the
\* caller's firstCard.
C6_FirstFlipTakesUncontrolled ==
    [][\A p \in Players, pos \in Positions :
         LET pre == finishPreviousTurn(Board, p) IN
         (/\ FlipStep(p, pos)
          /\ pre.err = "" /\ pre.b.firstCard[p] = NoCard
          /\ pre.b.value[pos] # Null /\ pre.b.controlledBy[pos] = Null)
         => /\ faceUp'[pos] /\ controlledBy'[pos] = p
            /\ firstCard'[p] = pos /\ secondCard'[p] = NoCard
            /\ last'.res = "ok"
            /\ waiters' = pre.b.waiters
            /\ value' = pre.b.value]_vars

\* rule 1-C has applied: the card taken had been left face up by another
\* player's finished turn
C6_Witness ==
    /\ last.op = "flip" /\ last.rule = "1-BC" /\ last.res = "ok"
    /\ controlledBy[last.pos] = last.p /\ firstCard[last.p] = last.pos
    /\ \E q \in Players \ {last.p} :
          TrackerPointsAt(q, last.pos) /\ secondCard[q] # NoCard

\* this step is a flip of the player that controlled pos, and it released pos
ReleasedByController(pos) ==
    /\ ReleasedIn(pos)
    /\ controlledBy[pos] = last'.p
    /\ controlledBy'[pos] = Null

\* C7: a first-card flip on a cell that is face up and controlled by another
\* player enqueues a waiter on that cell and changes nothing else, and the
\* suspended flip does not complete as long as the cell is neither released
\* by its controller nor removed: a waiter leaves a queue only in a step in
\* which the controller of its cell releases the cell or in which its card is
\* removed.
C7_ContendedFirstFlipWaits ==
    [][/\ \A p \in Players, pos \in Positions :
            LET pre == finishPreviousTurn(Board, p) IN
            (/\ FlipStep(p, pos)
             /\ pre.err = "" /\ pre.b.firstCard[p] = NoCard
             /\ pre.b.value[pos] # Null /\ pre.b.faceUp[pos]
             /\ pre.b.controlledBy[pos] \notin {Null, p})
            => /\ waiters' = [pre.b.waiters EXCEPT ![pos] = Append(@, p)]
               /\ last'.res = "wait"
               /\ tasks' = pre.b.tasks
               /\ controlledBy' = pre.b.controlledBy /\ faceUp' = pre.b.faceUp
               /\ firstCard'[p] = NoCard
       /\ \A pos \in Positions :
            \/ IsPrefix(waiters[pos], waiters'[pos])
            \/ ReleasedByController(pos)
            \/ controlledBy'[pos] = Null /\ RemovedIn(pos)
      ]_vars

\* a flip is suspended on a controlled card while another player's flip on
\* another card has just gone through
C7_Witness ==
    /\ last.op = "flip" /\ last.rule = "1-BC"
    /\ \E pos \in Positions \ {last.pos} :
          /\ waiters[pos] # << >>
          /\ controlledBy[pos] \notin {Null, Head(waiters[pos])}
          /\ last.p # Head(waiters[pos])

\* C8: each release (not removal) of a cell with a non-empty queue wakes
\* exactly the head waiter and leaves the others queued in order; woken
\* waiters resume in the order they were woken, and a resumed waiter whose
\* card is still there takes control of it.
C8_ReleaseWakesHeadInOrder ==
    [][/\ \A pos \in Positions :
            value'[pos] # Null =>
                \/ waiters'[pos] = waiters[pos] /\ WokenAt(pos) = << >>
                \/ /\ \E q \in Players : waiters'[pos] = Append(waiters[pos], q)
                   /\ WokenAt(pos) = << >>
                \/ /\ ReleasedIn(pos) /\ controlledBy'[pos] = Null
                   /\ waiters[pos] # << >>
                   /\ waiters'[pos] = Tail(waiters[pos])
                   /\ WokenAt(pos) = << Head(waiters[pos]) >>
       /\ \A pos \in Positions :
            (ReleasedIn(pos) /\ value'[pos] # Null /\ waiters[pos] # << >>)
                => waiters'[pos] = Tail(waiters[pos])
       /\ last'.op = "flip" => IsPrefix(tasks, tasks')
       /\ last'.op = "resume" =>
            /\ tasks # << >>
            /\ Head(tasks) = ResumeTask(last'.p, last'.pos)
            /\ IsPrefix(Tail(tasks), tasks')
            /\ value[last'.pos] # Null =>
                  /\ last'.res = "ok"
                  /\ controlledBy'[last'.pos] = last'.p
                  /\ faceUp'[last'.pos]
                  /\ firstCard'[last'.p] = last'.pos
      ]_vars

\* the second of two waiters has resumed and taken the card: the first
\* controller and the first waiter have both finished their turn on it
C8_Witness ==
    /\ last.op = "resume" /\ last.rule = "1-D taken"
    /\ controlledBy[last.pos] = last.p
    /\ \A q \in Players \ {last.p} :
          firstCard[q] = last.pos /\ secondCard[q] # NoCard

\* C9: a step that removes a card wakes every waiter queued on it, in order,
\* and empties its queue; no flip stays suspended on a removed card; a woken
\* waiter that finds its card removed fails with NoCardHere and changes no
\* cell and no turn tracker.
C9_RemovalWakesAll ==
    [][/\ \A pos \in Positions :
            RemovedIn(pos) =>
                /\ WokenAt(pos) = waiters[pos]
                /\ waiters'[pos] = << >>
                /\ ~faceUp'[pos] /\ controlledBy'[pos] = Null
       /\ \A pos \in Positions : value'[pos] = Null => waiters'[pos] = << >>
       /\ (last'.op = "resume" /\ value[last'.pos] = Null) =>
            /\ last'.res \in NoCardHere
            /\ tasks' = Append(Tail(tasks), RejectTask(last'.p, last'.pos, last'.res))
            /\ value' = value /\ faceUp' = faceUp
            /\ controlledBy' = controlledBy
            /\ firstCard' = firstCard /\ secondCard' = secondCard
            /\ hasMatched' = hasMatched
      ]_vars

\* the first of two waiters woken by a removal has failed, the second is
\* next to run
C9_Witness ==
    /\ last.op = "resume" /\ last.res = ErrGone
    /\ value[last.pos] = Null
    /\ tasks # << >>
    /\ Head(tasks).k = "resume" /\ Head(tasks).pos = last.pos
    /\ Head(tasks).p # last.p

\* C10: a second-card flip whose target is face up and controlled by any
\* player fails with CardControlled; the caller's first card loses its
\* controller and keeps its face, the head waiter on the first card (if any)
\* is woken, secondCard is recorded and hasMatched is false.
C10_SecondOnControlledFails ==
    [][\A p \in Players, pos \in Positions :
         (/\ FlipStep(p, pos)
          /\ firstCard[p] # NoCard /\ secondCard[p] = NoCard
          /\ value[pos] # Null /\ faceUp[pos] /\ controlledBy[pos] # Null)
         => /\ last'.res = ErrControlled
            /\ controlledBy'[firstCard[p]] = Null
            /\ faceUp' = faceUp
            /\ WokenAt(firstCard[p]) =
                  IF waiters[firstCard[p]] = << >> THEN << >>
                  ELSE << Head(waiters[firstCard[p]]) >>
            /\ firstCard'[p] = firstCard[p]
            /\ secondCard'[p] = pos /\ ~hasMatched'[p]]_vars

\* ------------------------------------------------------ second-card flips
\* this step is flip(p, pos) issued while p has a first card recorded and no
\* second card: the pre-step does nothing and flipSecond runs
SecondFlipStep(p, pos) ==
    /\ FlipStep(p, pos)
    /\ firstCard[p] # NoCard /\ secondCard[p] = NoCard

\* the head waiter of pos, if any, as the sequence a release of pos wakes
HeadOf(pos) ==
    IF waiters[pos] = << >> THEN << >> ELSE << Head(waiters[pos]) >>

\* C11: a second-card flip whose target is empty or outside the grid fails
\* with 'No card at position'; the caller's first card loses its controller
\* and keeps its face, the head waiter on the first card (if any) is woken,
\* secondCard is recorded and hasMatched is false.
C11_SecondOnNoCardFails ==
    [][\A p \in Players, pos \in FlipTargets :
         (/\ SecondFlipStep(p, pos)
          /\ ~InBounds(pos) \/ value[pos] = Null)
         => /\ last'.res = ErrNoCard
            /\ controlledBy'[firstCard[p]] = Null
            /\ faceUp' = faceUp
            /\ WokenAt(firstCard[p]) = HeadOf(firstCard[p])
            /\ firstCard'[p] = firstCard[p]
            /\ secondCard'[p] = pos /\ ~hasMatched'[p]]_vars

\* C12: a second-card flip on a present, uncontrolled target (face down or
\* face up) whose value equals the first card's value succeeds with both
\* cells face up and controlled by the caller and hasMatched true.
C12_SecondMatchKeepsBoth ==
    [][\A p \in Players, pos \in Positions :
         (/\ SecondFlipStep(p, pos)
          /\ value[pos] # Null /\ controlledBy[pos] = Null
          /\ value[firstCard[p]] = value[pos])
         => /\ last'.res = "ok"
            /\ faceUp'[firstCard[p]] /\ faceUp'[pos]
            /\ controlledBy'[firstCard[p]] = p /\ controlledBy'[pos] = p
            /\ firstCard'[p] = firstCard[p] /\ secondCard'[p] = pos
            /\ hasMatched'[p]]_vars

\* the continuations of woken waiters this step queued, in order
WokenTasks == SelectSeq(NewTasks, LAMBDA t : t.k = "resume")

\* the continuation a release of pos queues
HeadTask(pos) ==
    IF waiters[pos] = << >> THEN << >>
    ELSE << ResumeTask(Head(waiters[pos]), pos) >>

\* C13: a second-card flip on a present, uncontrolled target whose value
\* differs from the first card's value succeeds with both cells face up and
\* uncontrolled and hasMatched false, and wakes the head waiter of the first
\* card and then the head waiter of the target.
C13_SecondMismatchReleasesBoth ==
    [][\A p \in Players, pos \in Positions :
         (/\ SecondFlipStep(p, pos)
          /\ value[pos] # Null /\ controlledBy[pos] = Null
          /\ value[firstCard[p]] # value[pos])
         => /\ last'.res = "ok"
            /\ faceUp'[firstCard[p]] /\ faceUp'[pos]
            /\ controlledBy'[firstCard[p]] = Null /\ controlledBy'[pos] = Null
            /\ firstCard'[p] = firstCard[p] /\ secondCard'[p] = pos
            /\ ~hasMatched'[p]
            /\ WokenTasks = HeadTask(firstCard[p]) \o HeadTask(pos)]_vars

\* ------------------------------------------------------------ the pre-step
\* this step is flip(p, pos) issued while p has a finished turn recorded
NextTurnStep(p, pos) ==
    /\ FlipStep(p, pos)
    /\ firstCard[p] # NoCard /\ secondCard[p] # NoCard

Recorded(p) == {firstCard[p], secondCard[p]}

\* C14: when a player whose recorded turn is a matched pair issues the next
\* flip, both cells of the pair are empty, face down and uncontrolled and the
\* player's tracker is cleared before the new flip is evaluated: the new flip
\* runs as a first-card flip, finds no card on a cell of the pair, and leaves
\* both cells empty.
C14_MatchedPairRemoved ==
    [][\A p \in Players, pos \in FlipTargets :
         LET pre == finishPreviousTurn(Board, p) IN
         (NextTurnStep(p, pos) /\ hasMatched[p])
         => /\ pre.err = ""
            /\ \A c \in Recorded(p) :
                  /\ pre.b.value[c] = Null /\ ~pre.b.faceUp[c]
                  /\ pre.b.controlledBy[c] = Null
                  /\ value'[c] = Null /\ ~faceUp'[c] /\ controlledBy'[c] = Null
            /\ pre.b.firstCard[p] = NoCard /\ pre.b.secondCard[p] = NoCard
            /\ ~pre.b.hasMatched[p]
            /\ last'.rule \in {"1-A", "1-BC", "1-D"}
            /\ pos \in Recorded(p) => last'.rule = "1-A"]_vars

\* C15: when a player whose recorded turn did not match issues the next
\* flip, each recorded cell that is present, face up and uncontrolled is
\* turned face down before the new flip is evaluated, and a recorded cell
\* that another player controls keeps its face and its controller.
C15_UnmatchedTurnedDown ==
    [][\A p \in Players, pos \in FlipTargets :
         LET pre == finishPreviousTurn(Board, p) IN
         (NextTurnStep(p, pos) /\ ~hasMatched[p])
         => \A c \in Recorded(p) \cap Positions :
               /\ (value[c] # Null /\ faceUp[c] /\ controlledBy[c] = Null)
                     => /\ ~pre.b.faceUp[c]
                        /\ c # pos => ~faceUp'[c]
               /\ controlledBy[c] \notin {Null, p}
                     => /\ pre.b.faceUp[c] = faceUp[c]
                        /\ pre.b.controlledBy[c] = controlledBy[c]
                        /\ c # pos => /\ faceUp'[c] = faceUp[c]
                                      /\ controlledBy'[c] = controlledBy[c]
      ]_vars

\* ------------------------------------------------------- first-card flips
\* C16: a first-card flip whose target is empty or outside the grid fails
\* with 'No card at position'; the board is left as the pre-step left it
\* (cells, trackers, waiter queues, and the queued continuations but for
\* the rejection of this flip) and triggerBoardChange is not called, so no
\* listener is resolved.
C16_FirstOnNoCardChangesNothing ==
    [][\A p \in Players, pos \in FlipTargets :
         LET pre == finishPreviousTurn(Board, p) IN
         (/\ FlipStep(p, pos)
          /\ pre.err = "" /\ pre.b.firstCard[p] = NoCard
          /\ ~InBounds(pos) \/ pre.b.value[pos] = Null)
         => /\ last'.res = ErrNoCard
            /\ value' = pre.b.value /\ faceUp' = pre.b.faceUp
            /\ controlledBy' = pre.b.controlledBy
            /\ firstCard' = pre.b.firstCard /\ secondCard' = pre.b.secondCard
            /\ hasMatched' = pre.b.hasMatched
            /\ waiters' = pre.b.waiters
            /\ tasks' = Append(pre.b.tasks, RejectTask(p, pos, last'.res))
            /\ ~last'.notify]_vars

\* a first-card flip outside the grid has failed on a board from which a
\* pair has been removed
C16_Witness ==
    /\ last.op = "flip" /\ last.rule = "1-A" /\ last.res = ErrNoCard
    /\ ~InBounds(last.pos)
    /\ firstCard[last.p] = NoCard
    /\ \E c \in Positions : value[c] = Null

\* C17: a flip issued while the caller has a first card recorded never
\* suspends and never enqueues a waiter: the issuing step returns success or
\* failure, no queue grows, all its changes to cells and trackers are made in
\* that step, and the tail of flip that runs afterwards changes nothing.
C17_SecondFlipNeverWaits ==
    [][/\ \A p \in Players, pos \in FlipTargets :
            SecondFlipStep(p, pos)
            => /\ last'.res # "wait"
               /\ last'.rule \in {"2-A", "2-B", "2-D", "2-E"}
               /\ \A c \in Positions :
                     \/ waiters'[c] = waiters[c]
                     \/ waiters[c] # << >> /\ waiters'[c] = Tail(waiters[c])
               /\ secondCard'[p] = pos
       /\ last'.op = "settle"
            => /\ value' = value /\ faceUp' = faceUp
               /\ controlledBy' = controlledBy
               /\ firstCard' = firstCard /\ secondCard' = secondCard
               /\ hasMatched' = hasMatched /\ waiters' = waiters
      ]_vars

\* a second-card flip on a card that another player controls has failed at
\* once while a first-card flip stays suspended on that card
C17_Witness ==
    /\ last.op = "flip" /\ last.rule = "2-B" /\ last.res = ErrControlled
    /\ controlledBy[last.pos] \notin {Null, last.p}
    /\ waiters[last.pos] # << >>
    /\ \A c \in Positions : \A i \in 1..Len(waiters[c]) : waiters[c][i] # last.p

\* ---------------------------------------------------------------- progress
\* p has a first-card flip suspended in a waiter queue
Waiting(p) ==
    \E c \in Positions : \E i \in 1..Len(waiters[c]) : waiters[c][i] = p

\* p controls a card or has a card of a turn recorded
Obliged(p) ==
    \/ ControlledCount(Board, p) > 0
    \/ firstCard[p] # NoCard \/ secondCard[p] # NoCard

\* such a player issues another flip
PlayerFlips(p) == Obliged(p) /\ \E pos \in LivePositions : Flip(p, pos)

NextLive ==
    \/ \E p \in Players, pos \in LivePositions : Flip(p, pos)
    \/ Resume
    \/ Settle
    \/ Reject

\* a player whose last flip has returned and who controls a card or has a
\* turn recorded flips again: weak fairness of PlayerFlips(p), with the
\* condition under which PlayerFlips(p) can be taken written out
FlipsAgain(p) ==
    \/ []<>(~Obliged(p) \/ InFlight(p))
    \/ []<><<PlayerFlips(p)>>_vars

\* the players of Spec on the cells of LivePositions; the runtime drains the
\* microtask queue, and every player that controls a card or has a turn
\* recorded eventually issues another flip
SpecLive ==
    /\ Init /\ [][NextLive]_vars
    /\ WF_vars(Resume) /\ WF_vars(Settle) /\ WF_vars(Reject)
    /\ \A p \in Players : FlipsAgain(p)

\* C18: provided every player that controls a card or has a turn recorded
\* eventually issues another flip, every suspended first-card flip is
\* eventually resumed (and then takes the card or fails).
C18_SuspendedFlipCompletes ==
    \A p \in Players : Waiting(p) ~> ~Waiting(p)

\* ------------------------------------------------------------ waiter queues
\* the entries of the waiter queues, as (cell, index) pairs
QueueEntries == UNION {{<<c, i>> : i \in 1..Len(waiters[c])} : c \in Positions}

\* the flips of p that are suspended, or resolved with their continuation
\* still queued
PendingFlips(p) ==
    Cardinality({e \in QueueEntries : waiters[e[1]][e[2]] = p})
    + Cardinality({i \in 1..Len(tasks) : tasks[i].k = "resume" /\ tasks[i].p = p})

\* C19 (as stated): at most one player is suspended per cell, no waiter queue
\* holds more than one pending flip.
C19_AtMostOneWaiterPerCell ==
    \A c \in Positions : Len(waiters[c]) <= 1

\* C19 (amended): a waiter queue holds one entry for each first-card flip
\* suspended on its cell, of any number of players; what is bounded is the
\* number per player: a player that awaits each flip before the next has at
\* most one flip suspended or woken over all queues.
C19_OnePendingFlipPerPlayer ==
    \A p \in Players : PendingFlips(p) <= 1

\* two players are suspended on one controlled cell
C19_Witness ==
    \E c \in Positions :
        /\ controlledBy[c] # Null
        /\ Len(waiters[c]) >= 2
        /\ waiters[c][1] # waiters[c][2]

\* ------------------------------------------------------------------ errors
\* C20: a flip that fails, whatever the player, the position (on the board
\* or not) and the state, fails with NoCardHere or CardControlled and with
\* no other error: no assertion of checkRep, no error of the pre-step.
C20_OnlyDocumentedErrors ==
    last.res \in {"ok", "wait", ErrControlled} \cup NoCardHere

\* -------------------------------------------------------------- recovery
\* the result of a flip that threw
Failed(res) == res \notin {"ok", "wait"}

\* C21: a failed flip does not poison the board: after a flip of a player
\* fails the invariants of the representation hold, and the next flip of that
\* player, on a present card that nobody controls, runs the pre-step and
\* succeeds as a first-card flip.
C21_FailedFlipDoesNotPoison ==
    [][/\ (last'.op \in {"flip", "resume"} /\ Failed(last'.res)) => checkRep(Board')
       /\ \A p \in Players, pos \in Positions :
            ( /\ FlipStep(p, pos)
              /\ last.op \in {"flip", "resume"} /\ last.p = p /\ Failed(last.res)
              /\ value[pos] # Null /\ controlledBy[pos] = Null )
            => /\ last'.res = "ok" /\ last'.rule = "1-BC"
               /\ firstCard'[p] = pos /\ secondCard'[p] = NoCard
               /\ controlledBy'[pos] = p /\ faceUp'[pos]]_vars

\* ------------------------------------------------------------------- look
\* C22: look(p) renders the cells row by row: 'none' exactly for an empty
\* cell, 'down' exactly for a present face-down cell, 'my <card>' exactly for
\* a face-up cell controlled by p, 'up <card>' exactly for a face-up cell
\* controlled by another player or by nobody; on a board just constructed
\* every cell renders 'down'.
C22_LookRendersCells ==
    last.op = "look" =>
        /\ Len(last.view) = 1 + Rows * Cols
        /\ \A i \in 1..(Rows * Cols) :
             LET pos == CellOfLine(i)
                 line == last.view[i + 1]
             IN /\ line = "none" <=> value[pos] = Null
                /\ line = "down" <=> (value[pos] # Null /\ ~faceUp[pos])
                /\ line = "my " \o value[pos]
                     <=> (faceUp[pos] /\ controlledBy[pos] = last.p)
                /\ line = "up " \o value[pos]
                     <=> (faceUp[pos] /\ controlledBy[pos] # last.p)
        /\ (\A pos \in Positions : value[pos] # Null /\ ~faceUp[pos])
             => \A i \in 1..(Rows * Cols) : last.view[i + 1] = "down"

\* a player looks at a board on which it controls a card, another player
\* controls a card, and a third card is face down
C22_Witness ==
    /\ last.op = "look"
    /\ \E i, j, k \in 1..(Rows * Cols) :
          /\ last.view[i + 1] = "my " \o value[CellOfLine(i)]
          /\ last.view[j + 1] = "up " \o value[CellOfLine(j)]
          /\ controlledBy[CellOfLine(j)] \notin {Null, last.p}
          /\ last.view[k + 1] = "down"

\* the cells, the turn trackers, the waiter queues, the queued continuations
\* and the running maps
game == <<value, faceUp, controlledBy, firstCard, secondCard, hasMatched,
          waiters, tasks, maps>>

\* C23: look, and the registration step of watch, only read the game: the
\* caller is not suspended (no waiter, no continuation is queued), no cell, no
\* turn tracker and no waiter queue changes, and no listener is fired; look
\* also leaves the registry of listeners as it is, watch only appends to it.
C23_LookAndWatchReadOnly ==
    [][/\ last'.op = "look"
            => /\ game' = game /\ listeners' = listeners
               /\ last'.res = "ok" /\ ~last'.notify
       /\ last'.op = "watch"
            => /\ game' = game /\ listeners' = Append(listeners, last'.p)
               /\ last'.res = "ok" /\ ~last'.notify]_vars

\* watch is called while another watch is pending, a card is controlled and
\* a flip is suspended
C23_Witness ==
    /\ last.op = "watch"
    /\ Len(listeners) = 2
    /\ \E pos \in Positions : controlledBy[pos] # Null /\ waiters[pos] # << >>

\* ----------------------------------------------------------------- watch
\* C24: a listener registered by watch is one-shot: the first notification
\* fired after its registration resolves it, and no later one does; one
\* notification resolves every listener registered at that moment, whoever
\* registered it, and leaves the registry empty.
C24_ListenersAreOneShot ==
    [][/\ last'.notify
            => last'.resolved = listeners /\ listeners' = << >>
       /\ ~last'.notify
            => /\ last'.resolved = << >>
               /\ \/ listeners' = listeners
                  \/ last'.op = "watch" /\ listeners' = Append(listeners, last'.p)]_vars

\* one notification has resolved the watches of two different players
C24_Witness ==
    /\ last.notify
    /\ Len(last.resolved) = 2 /\ last.resolved[1] # last.resolved[2]
    /\ listeners = << >>

\* the state of the cells
cells == <<value, faceUp, controlledBy>>

\* C25: every flip that altered the state of a cell, whether it succeeded or
\* failed and whether the change was made by its pre-step or by the flip
\* itself, fires the change notification, so the listeners registered before
\* it are resolved when the flip completes at the latest: a flip that fails at
\* once notifies in the same step, a flip that succeeds notifies in its tail.
C25_ChangingFlipNotifies ==
    [][/\ \A p \in Players, pos \in FlipTargets :
            (FlipStep(p, pos) /\ Failed(last'.res) /\ cells' # cells)
            => last'.notify /\ last'.resolved = listeners /\ listeners' = << >>
       /\ last'.op = "settle"
            => last'.notify /\ last'.resolved = listeners /\ listeners' = << >>]_vars

\* -------------------------------------------------------------------- map
\* how many times f was called with card
Calls(keys, card) == Cardinality({j \in 1..Len(keys) : keys[j] = card})

\* this step starts a call of map that has to wait for f
MapCallStep == last'.op = "map" /\ last'.rule = "map-call"

\* this step is the write of the running map k, which then returns
MapWriteStep(k) ==
    /\ last'.op = "map" /\ last'.rule = "map-write"
    /\ k \in 1..Len(maps) /\ maps' = Without(maps, k)

\* C26: map calls the transform exactly once for each distinct value that a
\* non-empty cell holds when map is called, never for an empty cell and never
\* twice for one value; at the write every cell that holds a value the
\* transform was called for receives the output for that value.
C26_OneTransformPerValue ==
    [][/\ MapCallStep
            => LET m == maps'[Len(maps')] IN
               /\ Calls(m.keys, Null) = 0
               /\ \A card \in Values :
                    Calls(m.keys, card) =
                        IF \E pos \in Positions : value[pos] = card THEN 1 ELSE 0
       /\ (last'.op = "map" /\ last'.rule = "map-write" /\ maps # << >>)
            => \E k \in 1..Len(maps) :
                 /\ MapWriteStep(k)
                 /\ \A pos \in Positions :
                      (value[pos] # Null /\ HasKey(maps[k].keys, value[pos]))
                      => value'[pos] = f(maps[k].f, value[pos])]_vars

\* a map called with the renaming on the full board has returned: the two
\* cards A received the same output, the card B another
C26_Witness ==
    /\ last.op = "map" /\ last.rule = "map-write" /\ last.res = "ok"
    /\ value[<<0, 0>>] = "C" /\ value[<<0, 1>>] = "C" /\ value[<<0, 2>>] = "A"

\* C27: map keeps equal cards equal in every observable state: two non-empty
\* cells whose values are equal before a step, of a flip or of any of the
\* maps that run, have equal values after it; so the cards of a matched pair
\* still match, and the pair is removed by the next flip of the player that
\* holds it.
C27_MapKeepsPairs ==
    [][/\ \A c, d \in Positions :
            ( /\ value[c] # Null /\ value[c] = value[d]
              /\ value'[c] # Null /\ value'[d] # Null )
            => value'[c] = value'[d]
       /\ \A p \in Players :
            ( /\ hasMatched'[p]
              /\ value'[firstCard'[p]] # Null /\ value'[secondCard'[p]] # Null )
            => value'[firstCard'[p]] = value'[secondCard'[p]]
       /\ \A p \in Players, pos \in Positions :
            ( /\ NextTurnStep(p, pos) /\ hasMatched[p]
              /\ firstCard[p] # secondCard[p]
              /\ controlledBy[firstCard[p]] = p /\ controlledBy[secondCard[p]] = p )
            => RemovedIn(firstCard[p]) /\ RemovedIn(secondCard[p])]_vars

\* a map has rewritten both cards of a matched pair while its player holds
\* it and another map is still running
C27_Witness ==
    /\ last.op = "map" /\ last.rule = "map-write" /\ maps # << >>
    /\ hasMatched[MapPlayer]
    /\ firstCard[MapPlayer] # secondCard[MapPlayer]
    /\ controlledBy[firstCard[MapPlayer]] = MapPlayer
    /\ controlledBy[secondCard[MapPlayer]] = MapPlayer
    /\ value[firstCard[MapPlayer]] = "C" /\ value[secondCard[MapPlayer]] = "C"

\* C28: map changes nothing but the values of non-empty cells: in the step
\* of its write, as in every other step of map, the faceUp flag and the
\* controller of every cell, every empty cell, the turn tracker of every
\* player and every waiter queue stay as they are, and no cell becomes empty.
C28_MapChangesValuesOnly ==
    [][last'.op = "map"
        => /\ faceUp' = faceUp /\ controlledBy' = controlledBy
           /\ firstCard' = firstCard /\ secondCard' = secondCard
           /\ hasMatched' = hasMatched
           /\ waiters' = waiters /\ tasks' = tasks
           /\ \A pos \in Positions :
                /\ value[pos] = Null => value'[pos] = Null
                /\ value[pos] # Null => value'[pos] \in Values]_vars

\* a map has rewritten a card that is face up, controlled and recorded as a
\* first card, with a flip suspended on it, next to an empty cell
C28_Witness ==
    /\ last.op = "map" /\ last.rule = "map-write" /\ last.res = "ok"
    /\ \E pos, gone \in Positions :
          /\ value[gone] = Null
          /\ value[pos] \notin {Null, "B"}
          /\ faceUp[pos] /\ controlledBy[pos] # Null
          /\ firstCard[controlledBy[pos]] = pos
          /\ waiters[pos] # << >>

\* a transform of a running map has not settled yet
TransformPending ==
    \E k \in 1..Len(maps) : \E i \in 1..Len(maps[k].st) : maps[k].st[i] = "pending"

\* C29: while a transform of a map is pending that map has written no cell,
\* and the flips and looks issued meanwhile complete as they would without
\* the map (a flip suspends only on a face-up card that a player controls,
\* look reports the values not yet rewritten); the outputs are written in one
\* step, after every transform of the map has been fulfilled.
C29_MapWritesAfterTransforms ==
    [][/\ \A k \in 1..Len(maps) :
            MapWriteStep(k) =>
                /\ \A i \in 1..Len(maps[k].st) : maps[k].st[i] = "fulfilled"
                /\ value' = writeBack(Board, maps[k]).value
       /\ ~(last'.op = "map" /\ last'.rule = "map-write")
            => \A pos \in Positions : value'[pos] \in {value[pos], Null}
       /\ \A p \in Players, pos \in Positions :
            (FlipStep(p, pos) /\ TransformPending)
            => /\ maps' = maps
               /\ last'.res = "wait"
                    => /\ last'.rule = "1-D"
                       /\ faceUp[pos] /\ controlledBy[pos] # Null
       /\ (last'.op = "look" /\ TransformPending)
            => /\ last'.res = "ok" /\ maps' = maps
               /\ \A i \in 1..(Rows * Cols) :
                    value[CellOfLine(i)] # Null /\ faceUp[CellOfLine(i)]
                    => last'.view[i + 1] \in {"my " \o value[CellOfLine(i)],
                                             "up " \o value[CellOfLine(i)]}]_vars

\* a flip has taken a card after the first map was called and while one of
\* its transforms is fulfilled and another pending: the board still shows
\* the cards of the file
C29_Witness ==
    /\ last.op = "settle" /\ last.res = "ok"
    /\ Len(maps) = 1
    /\ \E i, j \in 1..Len(maps[1].st) :
          maps[1].st[i] = "fulfilled" /\ maps[1].st[j] = "pending"
    /\ \E pos \in Positions : controlledBy[pos] = last.p /\ value[pos] = "A"
    /\ value[<<0, 2>>] = "B"

\* this step is the running map k throwing the error of its transform
MapFailStep(k) ==
    /\ last'.op = "map" /\ last'.rule = "map-fail"
    /\ k \in 1..Len(maps) /\ maps' = Without(maps, k)

\* C30: if a transform called by a map fails, the map fails with that error,
\* no cell value is changed by that map and it fires no change notification:
\* the rejection of a transform reaches the map (nothing else ends on it),
\* a map of which a transform was rejected never writes, and the step in
\* which it throws leaves cells and listeners as they are.
C30_FailedTransformAbortsMap ==
    [][/\ last'.op = "map" => last'.rule # "exit"
       /\ \A k \in 1..Len(maps) :
            MapWriteStep(k) => \A i \in 1..Len(maps[k].st) : maps[k].st[i] # "rejected"
       /\ (last'.op = "map" /\ last'.rule = "map-fail")
            => /\ \E k \in 1..Len(maps) :
                    /\ MapFailStep(k)
                    /\ \E i \in 1..Len(maps[k].st) :
                          /\ maps[k].st[i] = "rejected"
                          /\ f(maps[k].f, maps[k].keys[i]) = Rejects
               /\ last'.res = ErrTransform
               /\ cells' = cells
               /\ ~last'.notify /\ last'.resolved = << >> /\ listeners' = listeners]_vars

\* a map has failed on card B after its transform of card A was fulfilled,
\* while a card is face up and controlled: the cards are those of the file
C30_Witness ==
    /\ last.op = "map" /\ last.rule = "map-fail" /\ last.res = ErrTransform
    /\ value[<<0, 0>>] = "A" /\ value[<<0, 1>>] = "A" /\ value[<<0, 2>>] = "B"
    /\ \E pos \in Positions : faceUp[pos] /\ controlledBy[pos] = MapPlayer

\* ------------------------------------------------------------ parseFromFile
\* the lines of the body that are not empty
NonEmpty(body) == SelectSeq(body, LAMBDA line : line # "")

\* C31: constructing a board from a file fails with a parse error whenever
\* the number of non-empty lines after the first differs from R * C, when
\* there are fewer and also when there are more.
C31_WrongCardCountRejected ==
    (/\ last.op = "parse" /\ last.header.match
     /\ Len(NonEmpty(last.body)) # last.header.rows * last.header.cols)
    => last.res = ErrParse

\* ------------------------------------------------------- resumed waiters
\* the continuation of a suspended flip runs and finds its card on the
\* board, controlled by a player other than the one resumed
ResumeOnTakenCard ==
    /\ tasks # << >> /\ Head(tasks).k = "resume"
    /\ last'.op = "resume"
    /\ InBounds(Head(tasks).pos)
    /\ value[Head(tasks).pos] # Null
    /\ controlledBy[Head(tasks).pos] \notin {Null, Head(tasks).p}

\* C32: a waiter resumed by a release that finds the cell present but
\* controlled again by another player does not take control: it joins the
\* tail of the cell's queue and suspends again, and the controller stays.
C32_ResumedWaiterRequeues ==
    [][ResumeOnTakenCard =>
          /\ controlledBy'[Head(tasks).pos] = controlledBy[Head(tasks).pos]
          /\ waiters'[Head(tasks).pos] =
                 Append(waiters[Head(tasks).pos], Head(tasks).p)]_vars

\* ----------------------------------------------------- turns in progress
\* C33: whenever a player has a first card recorded and no second card, the
\* cell of the first card holds a card, is face up and is controlled by that
\* player, and no other player has the same position as the first card of a
\* turn in progress.
C33_OpenTurnHoldsFirstCard ==
    \A p \in Players :
        TurnOpen(p) =>
            /\ InBounds(firstCard[p])
            /\ value[firstCard[p]] # Null
            /\ faceUp[firstCard[p]]
            /\ controlledBy[firstCard[p]] = p
            /\ \A q \in Players \ {p} :
                   ~(TurnOpen(q) /\ firstCard[q] = firstCard[p])

\* ---------------------------------------------------------------- removal
\* the cells from which the card has been removed
EmptyCells == {pos \in Positions : value[pos] = Null}

\* C34: cards leave the board only as matched pairs, two distinct cells of
\* equal value controlled by the removing player at a time, so the number of
\* empty cells is even in every reachable state.
C34_EmptyCellsEven == Cardinality(EmptyCells) % 2 = 0

\* ------------------------------------------------------- suspended players
\* C35, for players with any number of flips outstanding: a player with a
\* suspended flip controls at most one card.
C35_BlockedControlsAtMostOne ==
    \A p \in Players : Waiting(p) => ControlledCount(Board, p) <= 1

\* C35: a player whose flip is suspended is blocked on a first card; when
\* each player has at most one flip outstanding, a suspended player controls
\* no cell and its turn tracker is empty.
C35_BlockedHoldsNothing ==
    \A p \in Players :
        Waiting(p) =>
            /\ ControlledCount(Board, p) = 0
            /\ firstCard[p] = NoCard /\ secondCard[p] = NoCard

\* C36: the value of a cell becomes empty at most once and only by the
\* removal of a matched pair: a cell is emptied only by the pre-step of a
\* flip of a player whose recorded turn is a match that includes the cell,
\* and a cell that is empty stays empty in every step of flip and of map.
C36_EmptyStaysEmpty ==
    [][\A pos \in Positions :
         /\ value[pos] = Null => value'[pos] = Null
         /\ RemovedIn(pos)
              => /\ last'.op = "flip"
                 /\ hasMatched[last'.p]
                 /\ pos \in Recorded(last'.p)
                 /\ finishPreviousTurn(Board, last'.p).pre = "3-A"]_vars

\* a map has written new values on a board from which a matched pair has
\* been removed
C36_Witness ==
    /\ last.op = "map" /\ last.rule = "map-write" /\ last.res = "ok"
    /\ value[<<0, 0>>] = Null /\ value[<<0, 1>>] = Null
    /\ value[<<0, 2>>] = "A"

\* ------------------------------------------------------------ turn tracker
\* C37, the shape of the tracker: it holds no position, a first card only,
\* or a first and a second card, never a second card without a first.
C37_TrackerShape ==
    \A p \in Players : secondCard[p] # NoCard => firstCard[p] # NoCard

\* C37: the turn tracker of a player holds zero, one or two positions, and
\* whenever it holds two, the player's next flip runs the pre-step of rule 3
\* first, which clears firstCard, secondCard and hasMatched, and the flip is
\* then evaluated as a first-card flip.
C37_PreStepClearsTracker ==
    [][\A p \in Players, pos \in FlipTargets :
         LET pre == finishPreviousTurn(Board, p) IN
         NextTurnStep(p, pos)
         => /\ pre.err = ""
            /\ pre.b.firstCard[p] = NoCard /\ pre.b.secondCard[p] = NoCard
            /\ ~pre.b.hasMatched[p]
            /\ last'.rule \in {"1-A", "1-BC", "1-D"}
            /\ secondCard'[p] = NoCard /\ ~hasMatched'[p]
            /\ firstCard'[p] = IF last'.res = "ok" THEN pos ELSE NoCard]_vars

\* ----------------------------------------------------------- waiter queues
\* the continuations of the flips of p suspended on pos that have been
\* resolved and have not run yet
ResolvedTokens(p, pos) ==
    SelectSeq(tasks, LAMBDA t : t.k = "resume" /\ t.p = p /\ t.pos = pos)

\* C38: the waiter queues hold pending tokens only: the tokens a step
\* resolves, by a release or by a removal, are the tokens that step takes
\* out of the head of their queue, so that no token is resolved twice and no
\* resolved token is still in a queue.
C38_QueuesHoldPendingOnly ==
    /\ [](\A p \in Players, pos \in Positions :
            /\ Len(ResolvedTokens(p, pos)) <= 1
            /\ ResolvedTokens(p, pos) # << >>
                 => \A i \in 1..Len(waiters[pos]) : waiters[pos][i] # p)
    /\ [][\A pos \in Positions :
            \E added \in {<< >>} \cup {<< q >> : q \in Players} :
                waiters[pos] \o added = WokenAt(pos) \o waiters'[pos]]_vars

\* a removal has resolved the two flips suspended on a card of the pair, and
\* the queue of the card is empty
C38_Witness ==
    /\ last.op = "flip"
    /\ \E pos \in Positions :
          /\ value[pos] = Null
          /\ waiters[pos] = << >>
          /\ Len(SelectSeq(tasks, LAMBDA t : t.k = "resume" /\ t.pos = pos)) = 2

\* ------------------------------------------------------------- simulation
\* C39: the simulation, several players each doing a fixed number of turns
\* (a random first flip, then a second flip if the first succeeded), always
\* terminates: every player comes to the end of its turns, no flip stays
\* suspended for ever.
C39_SimulationTerminates == <>(\A p \in Players : Finished(p))

====
